---------------------------- MODULE Spec2Model ----------------------------
(***************************************************************************)
(* BudgetWise asset scripts: scripts/generate_store_assets.py and          *)
(* scripts/generate_icon.py.                                               *)
(*                                                                         *)
(* Two state machines over one set of variables:                           *)
(*   Spec        a run (and re-runs) of either script's main(): directory  *)
(*               creation, the render/save loop, the composite assets, the *)
(*               icon container, with every step able to raise;            *)
(*   RenderSpec  one call of create_budget_icon, one drawing call per      *)
(*               step, on a canvas observed at a few probe pixels.         *)
(* Python floats are modelled by exact integer arithmetic: size * ratio is *)
(* carried as a fraction num/den, and the places where the IEEE double     *)
(* product differs from the exact one (0.58, 0.7) are spelled out.         *)
(***************************************************************************)
EXTENDS Integers, Sequences, FiniteSets, TLC

VARIABLES
    \* ---- a run of main() ----
    script,      \* "store" | "icon": which script this process runs
    fonts,       \* the truetype files the machine can load (environment)
    pc,          \* position in main()
    idx,         \* loop index into square_assets / sizes (1-based)
    dirs,        \* directories that exist
    files,       \* path -> file content
    images,      \* generate_icon.main: the list `images`
    stdout,      \* paths printed as "Saved: <path>", in order
    written,     \* paths this run has written, in order
    run,         \* 1 for the first run, 2 for a re-run, ...
    prev,        \* how the previous run ended and the files it left
    \* ---- one call of create_budget_icon ----
    variant,     \* "store" | "icon": which script's create_budget_icon
    size,        \* argument size
    ratio,       \* argument padding_ratio as <<num, den>>
    rpc,         \* position in create_budget_icon
    i,           \* the gradient loop variable
    font,        \* the local `font` ("none" before assignment)
    tried,       \* font loaders called so far, in order
    glyph,       \* textbbox((0, 0), "$", font) of the resolved font
    ops,         \* draw calls issued so far, in order
    pixels       \* probe pixel -> RGBA

mainVars == <<script, fonts, pc, idx, dirs, files, images, stdout, written, run, prev>>
renderVars == <<variant, size, ratio, rpc, i, font, tried, glyph, ops, pixels>>
vars == <<script, fonts, pc, idx, dirs, files, images, stdout, written, run, prev,
          variant, size, ratio, rpc, i, font, tried, glyph, ops, pixels>>

(***************************************************************************)
(* Bounds of the model.                                                    *)
(***************************************************************************)
\* create_budget_icon is explored for every size 1..MaxSize as well as for
\* the sizes the scripts pass.
MaxSize == 40
\* main() is run at most MaxRuns times in a row.
MaxRuns == 2

(***************************************************************************)
(* Arithmetic helpers.                                                     *)
(***************************************************************************)
\* Python int() of the exact quotient a / b (b > 0): truncation toward zero.
PyInt(a, b) == IF a >= 0 THEN a \div b ELSE -((-a) \div b)

Max(a, b) == IF a >= b THEN a ELSE b

Min(a, b) == IF a <= b THEN a ELSE b

\* The largest power of two that is <= n (n >= 1): the binade of a double.
RECURSIVE Pow2Floor(_)
Pow2Floor(n) == IF n < 2 THEN 1 ELSE 2 * Pow2Floor(n \div 2)

\* int(n * 0.58).  The double nearest 0.58 is 0.58 - 0.36 * 2^-53, so the
\* exact product lies 0.36 * n * 2^-53 below 58n/100.  When 58n/100 is an
\* integer q, the rounded product falls short of q (and int() gives q - 1)
\* exactly when that deficit exceeds half an ulp below q, 2^(k-53) with
\* 2^k <= q: 9n > 25 * 2^k.  (50 * 0.58 = 28.999999999999996.)
IntTimes058(n) ==
    LET q == (n * 58) \div 100
    IN  IF (n * 58) % 100 = 0 /\ q > 0 /\ 9 * n > 25 * Pow2Floor(q)
        THEN q - 1 ELSE q

\* int(n * 0.7).  The double nearest 0.7 is 0.7 - 0.4 * 2^-53; as above the
\* product of a multiple of 10 rounds below the integer when 2n > 5 * 2^k.
IntTimes07(n) ==
    LET q == (n * 7) \div 10
    IN  IF (n * 7) % 10 = 0 /\ q > 0 /\ 2 * n > 5 * Pow2Floor(q)
        THEN q - 1 ELSE q

\* int(n * 0.15).  The double nearest 0.15 is 0.15 - 0.05 * 2^-53; the
\* deficit 0.05 * n * 2^-53 never reaches half an ulp of 0.15 * n.
IntTimes015(n) == (n * 15) \div 100

(***************************************************************************)
(* Colours.                                                                *)
(***************************************************************************)
Transparent == <<0, 0, 0, 0>>
DarkGreen == <<46, 125, 50>>
LightGreen == <<76, 175, 80>>
EnvelopeFill == <<255, 255, 255, 245>>
FlapColor == <<76, 175, 80, 255>>
DollarColor == <<46, 125, 50, 255>>
AccentColor == <<129, 199, 132, 255>>

\* The interpolation with its endpoints exchanged.
ChannelReversed(k, j, radius) ==
    LightGreen[k] + ((DarkGreen[k] - LightGreen[k]) * j) \div radius

\* int(a + (b - a) * ratio) with ratio = i / circle_radius.  The double
\* computation agrees with the exact quotient for every 1 <= i <= radius < 400.
Channel(k, j, radius) == DarkGreen[k] + ((LightGreen[k] - DarkGreen[k]) * j) \div radius

GradientFill(j, radius) ==
    <<Channel(1, j, radius), Channel(2, j, radius), Channel(3, j, radius), 255>>

(***************************************************************************)
(* Geometry of generate_store_assets.create_budget_icon(size, num/den).    *)
(***************************************************************************)
ScaleDen == 256

\* A padding rounded up instead of truncated.
PaddingRoundedUp(s, r) == (s * r[1] + r[2] - 1) \div r[2]

\* padding = int(size * padding_ratio).  For the ratios of PaddingRatios the
\* double product truncates to the same integer as the exact one.
Padding(s, r) == PyInt(s * r[1], r[2])

EffectiveSize(s, r) == s - 2 * Padding(s, r)

Center(s) == s \div 2

CircleRadiusStore(s, r) == EffectiveSize(s, r) \div 2

\* int(k * scale), scale = effective_size / 256 (exact in binary).
IntScale(k, s, r) == PyInt(k * EffectiveSize(s, r), ScaleDen)

EnvMarginStore(s, r) == IntScale(51, s, r) + Padding(s, r)

EnvTopStore(s, r) == IntScale(64, s, r) + Padding(s, r)

\* The bottom edge measured from effective_size instead of size.
EnvBottomFromEffective(s, r) == EffectiveSize(s, r) - IntScale(43, s, r) - Padding(s, r)

EnvBottomStore(s, r) == s - IntScale(43, s, r) - Padding(s, r)

CornerRadiusStore(s, r) == IntScale(13, s, r)

FlapOffsetStore(s, r) == IntScale(6, s, r)

FlapWidthStore(s, r) == Max(2, IntScale(6, s, r))

FontSizeStore(s, r) == IntScale(85, s, r)

LineWidthStore(s, r) == Max(1, IntScale(4, s, r))

\* The two accent segments: <<left_start, left_end, right_start, right_end>>.
AccentStore(s, r) ==
    << EnvMarginStore(s, r) + IntScale(26, s, r),
       Center(s) - IntScale(32, s, r),
       Center(s) + IntScale(32, s, r),
       s - EnvMarginStore(s, r) - IntScale(26, s, r) >>

(***************************************************************************)
(* Geometry of generate_icon.create_budget_icon(size).                     *)
(***************************************************************************)
MarginIcon(s) == s \div 16

CircleRadiusIcon(s) == s \div 2 - MarginIcon(s)

EnvMarginIcon(s) == s \div 5

EnvTopIcon(s) == s \div 4

EnvBottomIcon(s) == s - s \div 6

CornerRadiusIcon(s) == s \div 20

FlapOffsetIcon(s) == s \div 16

FlapWidthIcon(s) == Max(2, s \div 40)

FontSizeIcon(s) == s \div 3

LineWidthIcon(s) == Max(1, s \div 50)

AccentIcon(s) ==
    << EnvMarginIcon(s) + s \div 10,
       Center(s) - s \div 8,
       Center(s) + s \div 8,
       s - EnvMarginIcon(s) - s \div 10 >>

(***************************************************************************)
(* The geometry either variant derives, by name.                           *)
(***************************************************************************)
NoPadding == <<0, 1>>

CircleRadius(v, s, r) == IF v = "store" THEN CircleRadiusStore(s, r) ELSE CircleRadiusIcon(s)

EnvMargin(v, s, r) == IF v = "store" THEN EnvMarginStore(s, r) ELSE EnvMarginIcon(s)

EnvTop(v, s, r) == IF v = "store" THEN EnvTopStore(s, r) ELSE EnvTopIcon(s)

EnvBottom(v, s, r) == IF v = "store" THEN EnvBottomStore(s, r) ELSE EnvBottomIcon(s)

CornerRadius(v, s, r) == IF v = "store" THEN CornerRadiusStore(s, r) ELSE CornerRadiusIcon(s)

FlapOffset(v, s, r) == IF v = "store" THEN FlapOffsetStore(s, r) ELSE FlapOffsetIcon(s)

FlapWidth(v, s, r) == IF v = "store" THEN FlapWidthStore(s, r) ELSE FlapWidthIcon(s)

FontSize(v, s, r) == IF v = "store" THEN FontSizeStore(s, r) ELSE FontSizeIcon(s)

LineWidth(v, s, r) == IF v = "store" THEN LineWidthStore(s, r) ELSE LineWidthIcon(s)

Accent(v, s, r) == IF v = "store" THEN AccentStore(s, r) ELSE AccentIcon(s)

LineY1(s) == IntTimes058(s)

\* [env_margin, env_top, size - env_margin, env_bottom]
EnvelopeBox(v, s, r) ==
    <<EnvMargin(v, s, r), EnvTop(v, s, r), s - EnvMargin(v, s, r), EnvBottom(v, s, r)>>

\* flap_points
FlapPoints(v, s, r) ==
    << <<EnvMargin(v, s, r), EnvTop(v, s, r) + FlapOffset(v, s, r)>>,
       <<Center(s), Center(s) - FlapOffset(v, s, r)>>,
       <<s - EnvMargin(v, s, r), EnvTop(v, s, r) + FlapOffset(v, s, r)>> >>

(***************************************************************************)
(* Fonts.  ImageFont.truetype(name, n) succeeds when the machine has the   *)
(* font file and n is a usable pixel size; any exception it raises is      *)
(* swallowed by the bare except.                                           *)
(***************************************************************************)
Segoe == "segoeui.ttf"
Arial == "arial.ttf"
DefaultFont == "load_default"

TruetypeLoads(name, n) == name \in fonts /\ n > 0

\* The value of `font` after the nested try/except.
ResolveFont(n) ==
    IF TruetypeLoads(Segoe, n) THEN Segoe
    ELSE IF TruetypeLoads(Arial, n) THEN Arial
    ELSE DefaultFont

(***************************************************************************)
(* Images.  An image is its dimensions and what was drawn on it: a list of *)
(* badges, each with the offset and the drawing parameters it was drawn    *)
(* with.                                                                   *)
(***************************************************************************)
\* A canvas allocated with its dimensions in the wrong order.
NewImageTransposed(w, h) == [width |-> h, height |-> w, content |-> <<>>]

\* Image.new('RGBA', (w, h), (0, 0, 0, 0))
NewImage(w, h) == [width |-> w, height |-> h, content |-> <<>>]

\* Everything the drawing calls of create_budget_icon depend on.
Badge(v, s, r) ==
    [ variant |-> v, size |-> s, center |-> Center(s),
      circle_radius |-> CircleRadius(v, s, r),
      envelope |-> EnvelopeBox(v, s, r),
      corner_radius |-> CornerRadius(v, s, r),
      flap |-> FlapPoints(v, s, r),
      flap_width |-> FlapWidth(v, s, r),
      font |-> ResolveFont(FontSize(v, s, r)),
      font_size |-> FontSize(v, s, r),
      line_y1 |-> LineY1(s),
      accent |-> Accent(v, s, r),
      line_width |-> LineWidth(v, s, r) ]

\* create_budget_icon as a whole: a size x size canvas with the badge on it.
CreateBudgetIcon(v, s, r) ==
    [NewImage(s, s) EXCEPT !.content = <<[x |-> 0, y |-> 0, badge |-> Badge(v, s, r)]>>]

\* img.paste(icon, (x, y), icon): the canvas keeps its size.
Paste(img, icon, x, y) ==
    [img EXCEPT !.content =
        @ \o [k \in 1..Len(icon.content) |->
                [icon.content[k] EXCEPT !.x = @ + x, !.y = @ + y]]]

ReducedRatio == <<1, 20>>

CreateWideTile(w, h) ==
    LET icon_size == IntTimes07(h)
        icon == CreateBudgetIcon("store", icon_size, ReducedRatio)
    IN  Paste(NewImage(w, h), icon, IntTimes015(w), (h - icon_size) \div 2)

CreateSplashScreen(w, h) ==
    LET icon_size == Min(w, h) \div 2
        icon == CreateBudgetIcon("store", icon_size, ReducedRatio)
    IN  Paste(NewImage(w, h), icon, (w - icon_size) \div 2, (h - icon_size) \div 2)

(***************************************************************************)
(* Paths and the fixed catalogs.                                           *)
(***************************************************************************)
AppDir == <<"src", "BudgetWise.App">>
AssetsDir == <<"src", "BudgetWise.App", "Assets">>

DigitChar == <<"0", "1", "2", "3", "4", "5", "6", "7", "8", "9">>

\* str(n) for n >= 0, one character per element.
RECURSIVE Digits(_)
Digits(n) ==
    IF n < 10 THEN <<DigitChar[n + 1]>>
    ELSE Append(Digits(n \div 10), DigitChar[(n % 10) + 1])

\* os.path.join(dir, <the concatenation of parts>)
Join(dir, parts) == [dir |-> dir, name |-> parts]

\* f"{name}.png"
PngName(name) == <<name, ".png">>

\* f"BudgetWise_{size}.png"
IconPngName(s) == <<"BudgetWise_">> \o Digits(s) \o <<".png">>

\* A catalog in which one key was copied without being renamed.
SquareAssetsDuplicateKey ==
    << [name |-> "Square44x44Logo", size |-> 44],
       [name |-> "Square44x44Logo", size |-> 24],
       [name |-> "Square44x44Logo.targetsize-48_altform-unplated", size |-> 48],
       [name |-> "Square44x44Logo.targetsize-256_altform-unplated", size |-> 256],
       [name |-> "Square71x71Logo", size |-> 71],
       [name |-> "Square150x150Logo", size |-> 150],
       [name |-> "Square310x310Logo", size |-> 310],
       [name |-> "StoreLogo", size |-> 50],
       [name |-> "StoreLogo.scale-200", size |-> 100] >>

SquareAssets ==
    << [name |-> "Square44x44Logo", size |-> 44],
       [name |-> "Square44x44Logo.targetsize-24_altform-unplated", size |-> 24],
       [name |-> "Square44x44Logo.targetsize-48_altform-unplated", size |-> 48],
       [name |-> "Square44x44Logo.targetsize-256_altform-unplated", size |-> 256],
       [name |-> "Square71x71Logo", size |-> 71],
       [name |-> "Square150x150Logo", size |-> 150],
       [name |-> "Square310x310Logo", size |-> 310],
       [name |-> "StoreLogo", size |-> 50],
       [name |-> "StoreLogo.scale-200", size |-> 100] >>

SquareRatio == <<1, 10>>
SquarePath(k) == Join(AssetsDir, PngName(SquareAssets[k].name))
WidePath == Join(AssetsDir, <<"Wide310x150Logo.png">>)
SplashPath == Join(AssetsDir, <<"SplashScreen.png">>)
BadgePath == Join(AssetsDir, <<"BadgeLogo.png">>)
WideDims == <<310, 150>>
SplashDims == <<620, 300>>
BadgeSize == 24

IconSizes == <<16, 24, 32, 48, 64, 128, 256>>
IconPngSizes == {32, 256}
IcoPath == Join(AssetsDir, <<"BudgetWise.ico">>)
RootIcoPath == Join(AppDir, <<"BudgetWise.ico">>)

(***************************************************************************)
(* The file system and the encoders.                                       *)
(***************************************************************************)
NoFiles == [p \in {} |-> {}]

\* os.makedirs(path, exist_ok=True): the directory and every missing parent.
MakeDirs(ds, path) == ds \cup { SubSeq(path, 1, k) : k \in 1..Len(path) }

\* A write that opens the target for appending instead of truncating it.
WriteFileAppending(fs, path, bytes) ==
    IF path \in DOMAIN fs
    THEN (path :> [format |-> bytes.format, frames |-> fs[path].frames \o bytes.frames]) @@ fs
    ELSE (path :> bytes) @@ fs

\* open(path, "wb") and write: the path's previous content is replaced.
WriteFile(fs, path, bytes) == (path :> bytes) @@ fs

\* img.save(path, "PNG"): the encoding depends on the image alone.
PngBytes(img) == [format |-> "PNG", frames |-> <<img>>]

\* A file left behind by a save that raised part-way.
PartialBytes == [format |-> "partial", frames |-> <<>>]

\* A file of an earlier, unrelated origin.
StaleBytes == [format |-> "stale", frames |-> <<>>]

IcoMaxDim == 256

LexLess(a, b) == a[1] < b[1] \/ (a[1] = b[1] /\ a[2] < b[2])

\* sorted(set(sizes))
RECURSIVE SortedSizes(_)
SortedSizes(S) ==
    IF S = {} THEN <<>>
    ELSE LET m == CHOOSE a \in S : \A b \in S \ {a} : LexLess(a, b)
         IN  <<m>> \o SortedSizes(S \ {m})

\* frame = im.copy(); frame.thumbnail(size): im scaled down into size, keeping
\* its aspect ratio.
Thumbnail(im, sz) ==
    LET wide == sz[1] * im.height >= sz[2] * im.width
        w == IF wide THEN Max(1, (2 * sz[2] * im.width + im.height) \div (2 * im.height))
             ELSE sz[1]
        h == IF wide THEN sz[2]
             ELSE Max(1, (2 * sz[1] * im.height + im.width) \div (2 * im.width))
    IN  [im EXCEPT !.width = w, !.height = h]

\* The sizes the ICO encoder keeps: it drops every requested size larger than
\* the image save() was called on, or larger than 256.
IcoKeptSizes(im, sizes) ==
    { sz \in { sizes[k] : k \in 1..Len(sizes) } :
        ~(sz[1] > im.width \/ sz[2] > im.height \/ sz[1] > IcoMaxDim \/ sz[2] > IcoMaxDim) }

\* One frame per kept size, ascending: the first provided image of exactly
\* that size, else a thumbnail of im.
IcoFrames(im, sizes, append_images) ==
    LET provided == <<im>> \o append_images
        kept == SortedSizes(IcoKeptSizes(im, sizes))
        match(sz) == { k \in 1..Len(provided) :
                         <<provided[k].width, provided[k].height>> = sz }
        frame(sz) == IF match(sz) = {} THEN Thumbnail(im, sz)
                     ELSE provided[CHOOSE k \in match(sz) : \A j \in match(sz) : k <= j]
    IN  [k \in 1..Len(kept) |-> frame(kept[k])]

\* images[0].save(path, format='ICO', sizes=[(img.width, img.height) for img in
\* images], append_images=images[1:])
IcoBytes(imgs) ==
    [ format |-> "ICO",
      frames |-> IcoFrames(imgs[1],
                           [k \in 1..Len(imgs) |-> <<imgs[k].width, imgs[k].height>>],
                           SubSeq(imgs, 2, Len(imgs))) ]

(***************************************************************************)
(* main() of either script.                                                *)
(***************************************************************************)
Saved(path) == [text |-> "Saved", path |-> path]
AllGenerated == [text |-> "All store assets generated successfully!", path |-> <<>>]

\* The render state while main() is what runs.
RenderIdle ==
    /\ variant = "store" /\ size = 1 /\ ratio = NoPadding /\ rpc = "idle" /\ i = 0
    /\ font = "none" /\ tried = <<>> /\ glyph = <<0, 0, 0, 0>> /\ ops = <<>>
    /\ pixels = NoFiles

\* The directories that may exist before the first run: a chain of parents.
InitialDirs == { {} } \cup { MakeDirs({}, SubSeq(AssetsDir, 1, k)) : k \in 1..Len(AssetsDir) }

\* Files that may be there before the first run, at output paths or not.
StalePaths == { WidePath, IcoPath, Join(AssetsDir, <<"Notes.txt">>) }

Init ==
    /\ script \in {"store", "icon"}
    /\ fonts \in SUBSET {Segoe, Arial}
    /\ pc = "makedirs"
    /\ idx = 1
    /\ dirs \in InitialDirs
    /\ files \in { [p \in S |-> StaleBytes] :
                     S \in IF AssetsDir \in dirs THEN SUBSET StalePaths ELSE { {} } }
    /\ images = <<>>
    /\ stdout = <<>>
    /\ written = <<>>
    /\ run = 1
    /\ prev = [status |-> "none", files |-> NoFiles]
    /\ RenderIdle

\* img.save(path, ...) followed by print(f"Saved: {path}").
SaveAndPrint(path, bytes) ==
    /\ path.dir \in dirs
    /\ files' = WriteFile(files, path, bytes)
    /\ written' = Append(written, path)
    /\ stdout' = Append(stdout, Saved(path))

\* os.makedirs(assets_dir, exist_ok=True)
StoreMakeDirs ==
    /\ script = "store" /\ pc = "makedirs"
    /\ dirs' = MakeDirs(dirs, AssetsDir)
    /\ pc' = "squares"
    /\ UNCHANGED <<script, fonts, idx, files, images, stdout, written, run, prev>>
    /\ UNCHANGED renderVars

\* One iteration of `for name, size in square_assets`.
SaveSquare ==
    /\ script = "store" /\ pc = "squares"
    /\ SaveAndPrint(SquarePath(idx),
                    PngBytes(CreateBudgetIcon("store", SquareAssets[idx].size, SquareRatio)))
    /\ IF idx < Len(SquareAssets)
       THEN idx' = idx + 1 /\ pc' = pc
       ELSE idx' = idx /\ pc' = "wide"
    /\ UNCHANGED <<script, fonts, dirs, images, run, prev>>
    /\ UNCHANGED renderVars

SaveWide ==
    /\ script = "store" /\ pc = "wide"
    /\ SaveAndPrint(WidePath, PngBytes(CreateWideTile(WideDims[1], WideDims[2])))
    /\ pc' = "splash"
    /\ UNCHANGED <<script, fonts, idx, dirs, images, run, prev>>
    /\ UNCHANGED renderVars

SaveSplash ==
    /\ script = "store" /\ pc = "splash"
    /\ SaveAndPrint(SplashPath, PngBytes(CreateSplashScreen(SplashDims[1], SplashDims[2])))
    /\ pc' = "badge"
    /\ UNCHANGED <<script, fonts, idx, dirs, images, run, prev>>
    /\ UNCHANGED renderVars

SaveBadge ==
    /\ script = "store" /\ pc = "badge"
    /\ SaveAndPrint(BadgePath, PngBytes(CreateBudgetIcon("store", BadgeSize, ReducedRatio)))
    /\ pc' = "finish"
    /\ UNCHANGED <<script, fonts, idx, dirs, images, run, prev>>
    /\ UNCHANGED renderVars

\* print("\nAll store assets generated successfully!") and return.
StoreFinish ==
    /\ script = "store" /\ pc = "finish"
    /\ stdout' = Append(stdout, AllGenerated)
    /\ pc' = "done"
    /\ UNCHANGED <<script, fonts, idx, dirs, files, images, written, run, prev>>
    /\ UNCHANGED renderVars

IconMakeDirs ==
    /\ script = "icon" /\ pc = "makedirs"
    /\ dirs' = MakeDirs(dirs, AssetsDir)
    /\ pc' = "sizes"
    /\ UNCHANGED <<script, fonts, idx, files, images, stdout, written, run, prev>>
    /\ UNCHANGED renderVars

\* One iteration of `for size in sizes`: render, append, and for 32 and 256
\* also save the PNG.
RenderSize ==
    /\ script = "icon" /\ pc = "sizes"
    /\ LET img == CreateBudgetIcon("icon", IconSizes[idx], NoPadding)
       IN  /\ images' = Append(images, img)
           /\ IF IconSizes[idx] \in IconPngSizes
              THEN SaveAndPrint(Join(AssetsDir, IconPngName(IconSizes[idx])), PngBytes(img))
              ELSE UNCHANGED <<files, written, stdout>>
    /\ IF idx < Len(IconSizes)
       THEN idx' = idx + 1 /\ pc' = pc
       ELSE idx' = idx /\ pc' = "ico"
    /\ UNCHANGED <<script, fonts, dirs, run, prev>>
    /\ UNCHANGED renderVars

SaveIco ==
    /\ script = "icon" /\ pc = "ico"
    /\ SaveAndPrint(IcoPath, IcoBytes(images))
    /\ pc' = "root_ico"
    /\ UNCHANGED <<script, fonts, idx, dirs, images, run, prev>>
    /\ UNCHANGED renderVars

\* The last statement of generate_icon.main.
SaveRootIco ==
    /\ script = "icon" /\ pc = "root_ico"
    /\ SaveAndPrint(RootIcoPath, IcoBytes(images))
    /\ pc' = "done"
    /\ UNCHANGED <<script, fonts, idx, dirs, images, run, prev>>
    /\ UNCHANGED renderVars

Running == pc \notin {"done", "aborted"}

\* The path the statement at pc saves to, if it saves.
SaveTargets ==
    IF script = "store"
    THEN CASE pc = "squares" -> {SquarePath(idx)}
           [] pc = "wide" -> {WidePath}
           [] pc = "splash" -> {SplashPath}
           [] pc = "badge" -> {BadgePath}
           [] OTHER -> {}
    ELSE CASE pc = "sizes" /\ IconSizes[idx] \in IconPngSizes ->
                {Join(AssetsDir, IconPngName(IconSizes[idx]))}
           [] pc = "ico" -> {IcoPath}
           [] pc = "root_ico" -> {RootIcoPath}
           [] OTHER -> {}

\* Nothing in main() catches: an exception raised by makedirs or by a render
\* ends the process where it stands.
Raise ==
    /\ Running
    /\ pc' = "aborted"
    /\ UNCHANGED <<script, fonts, idx, dirs, files, images, stdout, written, run, prev>>
    /\ UNCHANGED renderVars

\* A save whose exception is caught and ignored: the run goes on to the next
\* asset (here: from the wide tile to the splash).
SaveRaisesSwallowed ==
    /\ Running
    /\ \E p \in SaveTargets :
          /\ p.dir \in dirs
          /\ files' = WriteFile(files, p, PartialBytes)
    /\ pc' = IF script = "store" /\ pc = "wide" THEN "splash" ELSE "aborted"
    /\ UNCHANGED <<script, fonts, idx, dirs, images, stdout, written, run, prev>>
    /\ UNCHANGED renderVars

\* An exception raised inside save() after the target was opened for writing:
\* the target is left truncated, and the process ends.
SaveRaises ==
    /\ Running
    /\ \E p \in SaveTargets :
          /\ p.dir \in dirs
          /\ files' = WriteFile(files, p, PartialBytes)
    /\ pc' = "aborted"
    /\ UNCHANGED <<script, fonts, idx, dirs, images, stdout, written, run, prev>>
    /\ UNCHANGED renderVars

\* The script is started again on the same machine: a new process, the file
\* system as the last one left it.
Rerun ==
    /\ ~Running /\ run < MaxRuns
    /\ prev' = [status |-> pc, files |-> files]
    /\ run' = run + 1
    /\ pc' = "makedirs" /\ idx' = 1
    /\ images' = <<>> /\ stdout' = <<>> /\ written' = <<>>
    /\ UNCHANGED <<script, fonts, dirs, files>>
    /\ UNCHANGED renderVars

Next ==
    \/ StoreMakeDirs \/ SaveSquare \/ SaveWide \/ SaveSplash \/ SaveBadge \/ StoreFinish
    \/ IconMakeDirs \/ RenderSize \/ SaveIco \/ SaveRootIco
    \/ Raise \/ SaveRaises \/ Rerun

Spec == Init /\ [][Next]_vars

(***************************************************************************)
(* One call of create_budget_icon, drawing call by drawing call.           *)
(* The canvas is observed at probe pixels: its four corners and a few      *)
(* pixels on the horizontal axis through the centre.                       *)
(***************************************************************************)
\* padding_ratio values explored besides the two the scripts pass.  Each is
\* a fraction whose double times any size below 1200 truncates as the exact
\* product does.
PaddingRatios == { <<0, 1>>, <<1, 20>>, <<1, 10>>, <<1, 4>>, <<1, 2>>, <<3, 4>>, <<9, 10>> }

\* Every (size, padding_ratio) generate_store_assets.py passes.
StoreCalls ==
    { <<SquareAssets[k].size, SquareRatio>> : k \in 1..Len(SquareAssets) }
    \cup { <<IntTimes07(WideDims[2]), ReducedRatio>>,
           <<Min(SplashDims[1], SplashDims[2]) \div 2, ReducedRatio>>,
           <<BadgeSize, ReducedRatio>> }

\* Every size generate_icon.py passes.
IconCalls == { <<IconSizes[k], NoPadding>> : k \in 1..Len(IconSizes) }

Corners(s) == { <<0, 0>>, <<s - 1, 0>>, <<0, s - 1>>, <<s - 1, s - 1>> }

AxisProbes(s, radius) ==
    { <<Center(s) + d, Center(s)>> :
        d \in { e \in {0, 1, radius \div 2, radius, radius + 1} : e >= 0 /\ Center(s) + e < s } }

Probes(s, radius) == Corners(s) \cup AxisProbes(s, radius)

Sq(a) == a * a

\* A filled ellipse that paints its whole bounding box, like a rectangle.
InEllipseBox(c, j, p) == p[1] >= c - j /\ p[1] <= c + j /\ p[2] >= c - j /\ p[2] <= c + j

\* Pixels a filled area of an ellipse drawn with the bounding box of a circle
\* of radius j around (c, c) covers: all of distance at most j + 1/2.
InEllipse(c, j, p) == Sq(p[1] - c) + Sq(p[2] - c) <= Sq(j) + j

InBox(b, p) == p[1] >= b[1] /\ p[1] <= b[3] /\ p[2] >= b[2] /\ p[2] <= b[4]

Clamp(a, lo, hi) == Max(lo, Min(a, hi))

\* Pixels of a filled rounded rectangle: the box without what lies outside
\* the quarter circles of radius cr at its corners.
InRoundedRect(b, cr, p) ==
    /\ InBox(b, p)
    /\ Sq(p[1] - Clamp(p[1], b[1] + cr, b[3] - cr))
         + Sq(p[2] - Clamp(p[2], b[2] + cr, b[4] - cr)) <= Sq(cr) + cr

\* Pixels a stroke of width w from a to b can touch: the segment's bounding
\* box grown by w on every side.
NearSegment(a, b, w, p) ==
    InBox(<<Min(a[1], b[1]) - w, Min(a[2], b[2]) - w,
            Max(a[1], b[1]) + w, Max(a[2], b[2]) + w>>, p)

\* The bounding box textbbox((0, 0), "$", font) may report.  The built-in
\* font is a fixed-size face; a truetype "$" is taken to be about half an em
\* wide and at most 6/5 em tall.
GlyphBoxes(f, n) ==
    IF f = DefaultFont THEN { <<0, 0, 6, 11>>, <<0, 3, 6, 12>> }
    ELSE { <<0, n \div 4, n \div 2, n>>, <<1, n \div 5, (3 * n) \div 5, (6 * n) \div 5>> }

\* text_x, text_y
TextOrigin(s, g) == <<Center(s) - (g[3] - g[1]) \div 2, Center(s) - (g[4] - g[2]) \div 4>>

\* The canvas after the probe pixels in area were filled with colour.
Paint(px, area, colour) == [p \in DOMAIN px |-> IF p \in area THEN colour ELSE px[p]]

DrawOp(name, xy, fill, arg) == [op |-> name, xy |-> xy, fill |-> fill, arg |-> arg]

\* The state of the main() machine while one call is what is explored.
MainIdle ==
    /\ script = "store" /\ pc = "idle" /\ idx = 1 /\ dirs = {} /\ files = NoFiles
    /\ images = <<>> /\ stdout = <<>> /\ written = <<>> /\ run = 1
    /\ prev = [status |-> "none", files |-> NoFiles]

RenderInit ==
    /\ MainIdle
    /\ fonts \in SUBSET {Segoe, Arial}
    /\ variant \in {"store", "icon"}
    /\ \E call \in IF variant = "store"
                    THEN StoreCalls \cup ((1..MaxSize) \X PaddingRatios)
                    ELSE IconCalls \cup ((1..MaxSize) \X {NoPadding}) :
          size = call[1] /\ ratio = call[2]
    /\ rpc = "new" /\ i = 0
    /\ font = "none" /\ tried = <<>> /\ glyph = <<0, 0, 0, 0>> /\ ops = <<>>
    /\ pixels = NoFiles

\* img = Image.new(...); draw = ImageDraw.Draw(img); the loop's range begins
\* at circle_radius.
NewCanvas ==
    /\ rpc = "new"
    /\ pixels' = [p \in Probes(size, CircleRadius(variant, size, ratio)) |-> Transparent]
    /\ i' = CircleRadius(variant, size, ratio)
    /\ rpc' = "circles"
    /\ UNCHANGED <<variant, size, ratio, font, tried, glyph, ops>>
    /\ UNCHANGED mainVars

\* One iteration of `for i in range(circle_radius, 0, -1)`.
DrawCircle ==
    /\ rpc = "circles" /\ i > 0
    /\ LET c == Center(size)
           fill == GradientFill(i, CircleRadius(variant, size, ratio))
           covered == { p \in DOMAIN pixels : InEllipse(c, i, p) }
       IN  /\ ops' = Append(ops, DrawOp("ellipse", <<c - i, c - i, c + i, c + i>>, fill, 0))
           /\ pixels' = Paint(pixels, covered, fill)
    /\ i' = i - 1
    /\ UNCHANGED <<variant, size, ratio, rpc, font, tried, glyph>>
    /\ UNCHANGED mainVars

\* The range is exhausted (at once when circle_radius <= 0).
EndCircles ==
    /\ rpc = "circles" /\ i <= 0
    /\ rpc' = "envelope"
    /\ UNCHANGED <<variant, size, ratio, i, font, tried, glyph, ops, pixels>>
    /\ UNCHANGED mainVars

WellFormed(b) == b[1] <= b[3] /\ b[2] <= b[4]

\* draw.rounded_rectangle(...).  Given a box with x1 < x0 or y1 < y0 the
\* library either draws nothing or raises ValueError (EnvelopeRaises),
\* depending on its version.
DrawEnvelope ==
    /\ rpc = "envelope"
    /\ LET b == EnvelopeBox(variant, size, ratio)
           cr == CornerRadius(variant, size, ratio)
           covered == { p \in DOMAIN pixels : WellFormed(b) /\ InRoundedRect(b, cr, p) }
       IN  /\ ops' = Append(ops, DrawOp("rounded_rectangle", b, EnvelopeFill, cr))
           /\ pixels' = Paint(pixels, covered, EnvelopeFill)
    /\ rpc' = "flap"
    /\ UNCHANGED <<variant, size, ratio, i, font, tried, glyph>>
    /\ UNCHANGED mainVars

EnvelopeRaises ==
    /\ rpc = "envelope"
    /\ ~WellFormed(EnvelopeBox(variant, size, ratio))
    /\ rpc' = "raised"
    /\ UNCHANGED <<variant, size, ratio, i, font, tried, glyph, ops, pixels>>
    /\ UNCHANGED mainVars

\* draw.line(flap_points, ...)
DrawFlap ==
    /\ rpc = "flap"
    /\ LET pts == FlapPoints(variant, size, ratio)
           w == FlapWidth(variant, size, ratio)
           covered == { p \in DOMAIN pixels :
                          NearSegment(pts[1], pts[2], w, p) \/ NearSegment(pts[2], pts[3], w, p) }
       IN  /\ ops' = Append(ops, DrawOp("line", pts, FlapColor, w))
           /\ pixels' = Paint(pixels, covered, FlapColor)
    /\ rpc' = "try_segoe"
    /\ UNCHANGED <<variant, size, ratio, i, font, tried, glyph>>
    /\ UNCHANGED mainVars

\* The outer try: ImageFont.truetype("segoeui.ttf", font_size).
TrySegoe ==
    /\ rpc = "try_segoe"
    /\ tried' = Append(tried, Segoe)
    /\ IF TruetypeLoads(Segoe, FontSize(variant, size, ratio))
       THEN font' = Segoe /\ rpc' = "text"
       ELSE font' = font /\ rpc' = "try_arial"
    /\ UNCHANGED <<variant, size, ratio, i, glyph, ops, pixels>>
    /\ UNCHANGED mainVars

\* The second attempt without a handler of its own: its failure leaves
\* create_budget_icon.
TryArialUncaught ==
    /\ rpc = "try_arial"
    /\ tried' = Append(tried, Arial)
    /\ IF TruetypeLoads(Arial, FontSize(variant, size, ratio))
       THEN font' = Arial /\ rpc' = "text"
       ELSE font' = font /\ rpc' = "raised"
    /\ UNCHANGED <<variant, size, ratio, i, glyph, ops, pixels>>
    /\ UNCHANGED mainVars

\* The inner try, in the outer except: ImageFont.truetype("arial.ttf", ...).
TryArial ==
    /\ rpc = "try_arial"
    /\ tried' = Append(tried, Arial)
    /\ IF TruetypeLoads(Arial, FontSize(variant, size, ratio))
       THEN font' = Arial /\ rpc' = "text"
       ELSE font' = font /\ rpc' = "load_default"
    /\ UNCHANGED <<variant, size, ratio, i, glyph, ops, pixels>>
    /\ UNCHANGED mainVars

\* The inner except: font = ImageFont.load_default().
LoadDefault ==
    /\ rpc = "load_default"
    /\ tried' = Append(tried, DefaultFont)
    /\ font' = DefaultFont
    /\ rpc' = "text"
    /\ UNCHANGED <<variant, size, ratio, i, glyph, ops, pixels>>
    /\ UNCHANGED mainVars

\* bbox = draw.textbbox(...); ...; draw.text((text_x, text_y), "$", ...)
DrawText ==
    /\ rpc = "text"
    /\ \E g \in GlyphBoxes(font, FontSize(variant, size, ratio)) :
          LET o == TextOrigin(size, g)
              covered == { p \in DOMAIN pixels :
                             InBox(<<o[1] + g[1], o[2] + g[2], o[1] + g[3], o[2] + g[4]>>, p) }
          IN  /\ glyph' = g
              /\ ops' = Append(ops, DrawOp("text", o, DollarColor, font))
              /\ pixels' = Paint(pixels, covered, DollarColor)
    /\ rpc' = "accent"
    /\ UNCHANGED <<variant, size, ratio, i, font, tried>>
    /\ UNCHANGED mainVars

\* The two accent draw.line calls and `return img`.
DrawAccents ==
    /\ rpc = "accent"
    /\ LET a == Accent(variant, size, ratio)
           y == LineY1(size)
           w == LineWidth(variant, size, ratio)
           left == { p \in DOMAIN pixels : NearSegment(<<a[1], y>>, <<a[2], y>>, w, p) }
           right == { p \in DOMAIN pixels : NearSegment(<<a[3], y>>, <<a[4], y>>, w, p) }
       IN  /\ ops' = ops \o << DrawOp("line", << <<a[1], y>>, <<a[2], y>> >>, AccentColor, w),
                                DrawOp("line", << <<a[3], y>>, <<a[4], y>> >>, AccentColor, w) >>
           /\ pixels' = Paint(Paint(pixels, left, AccentColor), right, AccentColor)
    /\ rpc' = "done"
    /\ UNCHANGED <<variant, size, ratio, i, font, tried, glyph>>
    /\ UNCHANGED mainVars

RenderNext ==
    \/ NewCanvas \/ DrawCircle \/ EndCircles \/ DrawEnvelope \/ EnvelopeRaises \/ DrawFlap
    \/ TrySegoe \/ TryArial \/ LoadDefault \/ DrawText \/ DrawAccents

RenderSpec == RenderInit /\ [][RenderNext]_vars

\* The statements from the outer try to draw.text.
FontSteps == TrySegoe \/ TryArial \/ LoadDefault \/ DrawText

\* The interpreter keeps executing: once the call has reached these
\* statements, each that can run does.
FairRenderSpec == RenderSpec /\ WF_vars(FontSteps)

(***************************************************************************)
(* Properties of main().                                                   *)
(***************************************************************************)
Range(s) == { s[k] : k \in 1..Len(s) }

IsPrefix(s, full) == Len(s) <= Len(full) /\ s = SubSeq(full, 1, Len(s))

FrameSizes(bytes) == { <<bytes.frames[k].width, bytes.frames[k].height>> : k \in 1..Len(bytes.frames) }

\* The order in which a run of each script writes its files.
StoreWriteOrder ==
    [k \in 1..Len(SquareAssets) |-> SquarePath(k)] \o <<WidePath, SplashPath, BadgePath>>

IconWriteOrder ==
    << Join(AssetsDir, IconPngName(32)), Join(AssetsDir, IconPngName(256)), IcoPath, RootIcoPath >>

WriteOrder == IF script = "store" THEN StoreWriteOrder ELSE IconWriteOrder

\* C1: after a successful run of the icon script, each of the two icon
\* container files embeds exactly 7 frames, of sizes 16, 24, 32, 48, 64, 128
\* and 256, each as wide as it is high.
C1_IcoEmbedsSevenFrames ==
    (script = "icon" /\ pc = "done") =>
        \A p \in {IcoPath, RootIcoPath} :
            /\ p \in DOMAIN files
            /\ files[p].format = "ICO"
            /\ Len(files[p].frames) = 7
            /\ FrameSizes(files[p]) = { <<s, s>> : s \in {16, 24, 32, 48, 64, 128, 256} }

\* C2: a completed run of the store-asset script has created the assets
\* directory and written exactly 12 files at 12 pairwise distinct paths: one
\* per catalog entry, named after its key, then the wide tile, the splash and
\* the badge.
C2_StoreWritesTwelveDistinctFiles ==
    (script = "store" /\ pc = "done") =>
        /\ AssetsDir \in dirs
        /\ Len(written) = 12
        /\ Cardinality(Range(written)) = 12
        /\ \A k \in 1..9 : written[k] = Join(AssetsDir, <<SquareAssets[k].name, ".png">>)
        /\ SubSeq(written, 10, 12) = <<WidePath, SplashPath, BadgePath>>
        /\ \A p \in Range(written) : p \in DOMAIN files /\ files[p].format = "PNG"

C2_Witness ==
    /\ script = "store" /\ pc = "done" /\ run = 1
    /\ Len(written) = 12
    /\ SquarePath(8) \in DOMAIN files

\* C3: a run that completes after a completed run leaves exactly the files,
\* with exactly the contents, that the earlier run left, whatever the file
\* system held before the first run; it writes only paths the earlier run
\* wrote.
C3_RerunLeavesSameFiles ==
    (run >= 2 /\ pc = "done" /\ prev.status = "done") =>
        /\ files = prev.files
        /\ Range(written) \subseteq DOMAIN prev.files
        /\ written = WriteOrder

C3_Witness ==
    /\ run = 2 /\ pc = "done" /\ prev.status = "done"
    /\ Join(AssetsDir, <<"Notes.txt">>) \in DOMAIN files
    /\ WidePath \in DOMAIN files

SquareOf(img, s) == img.width = s /\ img.height = s

\* C5: every image either script produces is a square canvas of the size it
\* was requested at, except the wide tile, which is 310x150, and the splash,
\* which is 620x300, whatever the size of the badge inside them (105 and 150).
C5_CanvasDimensions ==
    /\ \A k \in 1..Len(images) : SquareOf(images[k], IconSizes[k])
    /\ \A k \in 1..Len(written) :
          LET p == written[k]
              img == files[p].frames[1]
          IN  files[p].format = "PNG" =>
                IF script = "icon" THEN SquareOf(img, IF k = 1 THEN 32 ELSE 256)
                ELSE IF k <= 9 THEN SquareOf(img, SquareAssets[k].size)
                ELSE IF p = WidePath
                     THEN img.width = 310 /\ img.height = 150 /\ img.content[1].badge.size = 105
                ELSE IF p = SplashPath
                     THEN img.width = 620 /\ img.height = 300 /\ img.content[1].badge.size = 150
                ELSE SquareOf(img, 24)

C5_Witness ==
    /\ script = "store" /\ pc = "badge"
    /\ files[WidePath].format = "PNG" /\ files[SplashPath].format = "PNG"

\* C7: there is no retry and no recovery.  The files a run has written are
\* always a prefix of the script's fixed write order, each still holding what
\* was written, and once the run has aborted nothing more is written and
\* nothing is run again within that process.
C7_WrittenIsPrefix ==
    /\ IsPrefix(written, WriteOrder)
    /\ \A p \in Range(written) : p \in DOMAIN files /\ files[p].format \in {"PNG", "ICO"}
    /\ pc = "aborted" => Len(stdout) = Len(written)

C7_AbortIsFinal ==
    [][pc = "aborted" => (run' = run + 1 /\ files' = files)]_vars

C7_NoRetryNoRecovery == []C7_WrittenIsPrefix /\ C7_AbortIsFinal

C7_Witness ==
    /\ pc = "aborted" /\ script = "store"
    /\ Len(written) = 10
    /\ SplashPath \in DOMAIN files
    /\ files[SplashPath] = PartialBytes

(***************************************************************************)
(* Properties of create_budget_icon.                                       *)
(***************************************************************************)
ScriptCall ==
    IF variant = "store" THEN <<size, ratio>> \in StoreCalls ELSE <<size, ratio>> \in IconCalls

\* C4: for every badge the store-asset script renders (every catalog size at
\* ratio 0.1; 24, 105 and 150 at ratio 0.05) the four corner pixels are fully
\* transparent after every drawing step, the last included.
C4_CornersTransparent ==
    (variant = "store" /\ <<size, ratio>> \in StoreCalls /\ ratio[1] > 0 /\ rpc # "new") =>
        \A p \in Corners(size) : pixels[p] = <<0, 0, 0, 0>>

C4_Witness ==
    /\ variant = "store" /\ size = 24 /\ ratio = <<1, 20>> /\ rpc = "done"
    /\ Center(size) + CircleRadius(variant, size, ratio) = size - 1
    /\ pixels[<<size - 1, size - 1>>] = <<0, 0, 0, 0>>

Ops(name) == { k \in 1..Len(ops) : ops[k].op = name }

GeometryWellFormed ==
    /\ rpc # "raised"
    /\ \A k \in Ops("rounded_rectangle") :
          ops[k].xy[1] <= ops[k].xy[3] /\ ops[k].xy[2] <= ops[k].xy[4]
    /\ (rpc = "circles" /\ i > 0) => CircleRadius(variant, size, ratio) # 0
    /\ \A k \in Ops("line") :
          /\ ops[k].fill = FlapColor => ops[k].arg >= 2
          /\ ops[k].fill = AccentColor => ops[k].arg >= 1

\* C6 as claimed: for every positive size and every padding_ratio in [0, 1)
\* no step other than font loading fails; the envelope rectangle has
\* left <= right and top <= bottom, the radius is not zero when divided by,
\* and the strokes are at least 2 (flap) and 1 (accents) wide.
C6_WellFormedForEveryRatio ==
    (size >= 1 /\ ratio[1] >= 0 /\ ratio[1] < ratio[2]) => GeometryWellFormed

\* C6, amended: the same for every positive size and every padding_ratio in
\* [0, 1/2], which includes the ratios the scripts pass, and for every
\* positive size of the icon script's renderer.
C6_WellFormedUpToHalf ==
    (size >= 1 /\ ratio[1] >= 0 /\ 2 * ratio[1] <= ratio[2]) => GeometryWellFormed

C6_Witness ==
    /\ variant = "store" /\ size = 16 /\ ratio = <<1, 10>> /\ rpc = "done"
    /\ Ops("rounded_rectangle") # {}
    /\ \E k \in Ops("line") : ops[k].arg = 2

\* The spec's radius, as a whole number of pixels:
\* (size - 2 * size * padding_ratio) / 2, and for the icon script
\* size / 2 - size / 16.
FormulaRadius ==
    IF variant = "store"
    THEN (size * ratio[2] - 2 * size * ratio[1]) \div (2 * ratio[2])
    ELSE (8 * size - size) \div 16

\* The radius the code starts its gradient loop at.
AtLoopEntry == rpc = "circles" /\ ops = <<>>

\* C9 as claimed: for every call the scripts make, the radius the code
\* computes equals the formula's value.
C9_RadiusEqualsFormula == (AtLoopEntry /\ ScriptCall) => i = FormulaRadius

\* C9, amended: for every call the scripts make, the radius the code computes
\* (padding or margin truncated to whole pixels before it is subtracted) is
\* the formula's whole number of pixels or exactly one more.
C9_RadiusWithinOneOfFormula ==
    (AtLoopEntry /\ ScriptCall) => (i = FormulaRadius \/ i = FormulaRadius + 1)

C9_Witness ==
    /\ AtLoopEntry /\ variant = "store" /\ size = 44 /\ ratio = <<1, 10>>
    /\ i = 18 /\ FormulaRadius = 17

\* The centre and radius of the circle that ellipse call k draws.
EllipseRadius(k) == (ops[k].xy[3] - ops[k].xy[1]) \div 2

GradientDrawn == rpc \notin {"new", "circles"}

\* C10: the gradient step draws exactly r circles, of radius r, r-1, ..., 1,
\* all centred on (size//2, size//2); the circle of radius j is filled,
\* opaque, with the truncated interpolation at j/r between (46,125,50) and
\* (76,175,80); the outermost has exactly the light colour, every channel
\* lies between the endpoints and does not increase as the radius shrinks,
\* and a pixel ends up with the colour of the smallest circle covering it.
C10_Gradient ==
    LET r == CircleRadius(variant, size, ratio)
        c == size \div 2
        n == Cardinality(Ops("ellipse"))
        dark == <<46, 125, 50>>
        light == <<76, 175, 80>>
    IN  /\ Ops("ellipse") = 1..n
        /\ rpc = "circles" => n = r - i
        /\ GradientDrawn => n = IF r > 0 THEN r ELSE 0
        /\ \A k \in 1..n :
              /\ ops[k].xy = <<c - (r - k + 1), c - (r - k + 1), c + (r - k + 1), c + (r - k + 1)>>
              /\ ops[k].fill[4] = 255
              /\ \A ch \in 1..3 :
                    /\ ops[k].fill[ch] = dark[ch] + ((light[ch] - dark[ch]) * (r - k + 1)) \div r
                    /\ ops[k].fill[ch] >= dark[ch] /\ ops[k].fill[ch] <= light[ch]
                    /\ k > 1 => ops[k].fill[ch] <= ops[k - 1].fill[ch]
        /\ n >= 1 => ops[1].fill = <<76, 175, 80, 255>>
        /\ rpc = "envelope" =>
              \A p \in AxisProbes(size, r) :
                 LET d == p[1] - c
                     covering == { k \in 1..n : d <= EllipseRadius(k) }
                 IN  pixels[p] = IF covering = {} THEN <<0, 0, 0, 0>>
                                 ELSE ops[CHOOSE k \in covering :
                                            \A m \in covering : EllipseRadius(k) <= EllipseRadius(m)].fill

C10_Witness ==
    /\ rpc = "envelope" /\ variant = "icon" /\ size = 256
    /\ Cardinality(Ops("ellipse")) = 112
    /\ pixels[<<128 + 56, 128>>] = <<61, 150, 65, 255>>
    /\ pixels[<<128 + 113, 128>>] = <<0, 0, 0, 0>>

FontResolved == rpc \in {"text", "accent", "done"}

FontFallbackOrdered ==
    LET n == FontSize(variant, size, ratio)
    IN  /\ IsPrefix(tried, <<"segoeui.ttf", "arial.ttf", "load_default">>)
        /\ Len(tried) >= 2 => ~TruetypeLoads("segoeui.ttf", n)
        /\ Len(tried) >= 3 => ~TruetypeLoads("arial.ttf", n)
        /\ FontResolved =>
              /\ tried # <<>>
              /\ font = tried[Len(tried)]
              /\ font \in {"segoeui.ttf", "arial.ttf"} => TruetypeLoads(font, n)
        /\ ~FontResolved => font = "none"
        /\ rpc = "raised" => tried = <<>>

\* C8: font resolution is an ordered fallback in which the first success
\* wins: the second named font is tried only if the first failed, the
\* built-in font only if both failed; exactly one font is resolved, no
\* loading failure leaves create_budget_icon, and the glyph is always drawn.
C8_FontFallback ==
    /\ []FontFallbackOrdered
    /\ (rpc = "try_segoe") ~> (rpc = "accent" /\ ops[Len(ops)].op = "text")

C8_Witness ==
    /\ rpc = "done" /\ fonts = {}
    /\ tried = <<"segoeui.ttf", "arial.ttf", "load_default">>
    /\ font = "load_default"
    /\ \E k \in Ops("text") : ops[k].arg = "load_default"

=============================================================================
